---- MODULE Spec2Model ----
(***************************************************************************)
(* Model of the vuliz package-network builder                              *)
(* (src/package_network/package_network_creator.ts) together with the      *)
(* manifest parsers and the dependency resolver it calls.                  *)
(*                                                                         *)
(* Strings are sequences of one-character strings, so that the parsers'    *)
(* regular expressions, toLowerCase and the key templates are computed     *)
(* rather than assumed.                                                    *)
(***************************************************************************)
EXTENDS Integers, Sequences, FiniteSets, TLC

(***************************************************************************)
(* Bounds of the model                                                     *)
(***************************************************************************)
\* largest number of entries of a manifest
MaxManifest == 2
\* largest number of requirement strings in one registry response
MaxRequires == 2
\* largest number of calls of create() on one instance
MaxCalls == 2

(***************************************************************************)
(* Characters and strings                                                  *)
(***************************************************************************)
UpperCase == <<"A","B","C","D","E","F","G","H","I","J","K","L","M",
               "N","O","P","Q","R","S","T","U","V","W","X","Y","Z">>
LowerCase == <<"a","b","c","d","e","f","g","h","i","j","k","l","m",
               "n","o","p","q","r","s","t","u","v","w","x","y","z">>
Digits == {"0","1","2","3","4","5","6","7","8","9"}
WhiteSpace == {" ", "\t"}

Range(s) == {s[i] : i \in 1..Len(s)}

IsUpper(c) == c \in Range(UpperCase)
IsLower(c) == c \in Range(LowerCase)
IsAlnum(c) == IsUpper(c) \/ IsLower(c) \/ c \in Digits

\* String.prototype.toLowerCase, one character
ToLowerChar(c) ==
  IF IsUpper(c)
    THEN LowerCase[CHOOSE i \in 1..Len(UpperCase) : UpperCase[i] = c]
    ELSE c

\* String.prototype.toLowerCase
ToLowerCase(s) == [i \in 1..Len(s) |-> ToLowerChar(s[i])]

\* String.prototype.startsWith
StartsWith(s, p) ==
  /\ Len(p) <= Len(s)
  /\ \A i \in 1..Len(p) : s[i] = p[i]

\* the suffix of s from position i (1-based) on
From(s, i) == IF i > Len(s) THEN << >> ELSE SubSeq(s, i, Len(s))

\* length of the longest prefix of s whose characters all satisfy "in cs"
PrefixIn(s, cs) ==
  LET ok(n) == \A i \in 1..n : s[i] \in cs
  IN  CHOOSE n \in 0..Len(s) : ok(n) /\ (n = Len(s) \/ s[n + 1] \notin cs)

\* length of the longest prefix of s none of whose characters is in cs
PrefixNotIn(s, cs) ==
  LET ok(n) == \A i \in 1..n : s[i] \notin cs
  IN  CHOOSE n \in 0..Len(s) : ok(n) /\ (n = Len(s) \/ s[n + 1] \in cs)

\* String.prototype.trim
Trim(s) ==
  LET a == PrefixIn(s, WhiteSpace)
      r == From(s, a + 1)
      rev == [i \in 1..Len(r) |-> r[Len(r) + 1 - i]]
      b == PrefixIn(rev, WhiteSpace)
  IN  SubSeq(r, 1, Len(r) - b)

\* s.split(c)[0] for a one-character separator
SplitFirst(s, c) == SubSeq(s, 1, PrefixNotIn(s, {c}))

LATEST_VERSION == <<"*">>

(***************************************************************************)
(* RequirementsFileProcessor                                               *)
(***************************************************************************)
\* the character class [a-zA-Z0-9_.-] of versionPattern
IsNameChar(c) == IsAlnum(c) \/ c \in {"_", ".", "-"}

\* the characters a version specifier stops at: [;#\s]
SpecifierStops == {";", "#"} \cup WhiteSpace \cup {"\n", "\r"}

\* the operators that may open group 2 of versionPattern:
\* ==|!=|>=?|<=?|~=|\^
OpensSpecifier(s) ==
  \/ StartsWith(s, <<"=", "=">>)
  \/ StartsWith(s, <<"!", "=">>)
  \/ StartsWith(s, <<">">>)
  \/ StartsWith(s, <<"<">>)
  \/ StartsWith(s, <<"~", "=">>)
  \/ StartsWith(s, <<"^">>)

\* number of characters the optional group (?:\[[^\]]+\])? consumes
ExtrasLen(s) ==
  IF Len(s) = 0 \/ s[1] # "["
    THEN 0
    ELSE LET inner == From(s, 2)
             k == PrefixNotIn(inner, {"]"})
         IN  IF k >= 1 /\ k < Len(inner) THEN k + 2 ELSE 0

\* rawEntry.match(versionPattern): matched tells whether there is a match,
\* g1 and g2 are the groups (g2 empty when the group did not take part)
MatchVersionPattern(rawEntry) ==
  LET nameLen == PrefixIn(rawEntry, {c \in Range(rawEntry) : IsNameChar(c)})
      afterName == From(rawEntry, nameLen + 1)
      afterExtras == From(afterName, ExtrasLen(afterName) + 1)
      afterSpaces == From(afterExtras, PrefixIn(afterExtras, {" "}) + 1)
      g2 == IF OpensSpecifier(afterSpaces)
              THEN SubSeq(afterSpaces, 1, PrefixNotIn(afterSpaces, SpecifierStops))
              ELSE << >>
  IN  [matched |-> nameLen >= 1, g1 |-> SubSeq(rawEntry, 1, nameLen), g2 |-> g2]

\* the alternatives of /^(===|~=|==|!=|>=|<=|>|<|=)/ in their order
VersionPrefixes ==
  << <<"=","=","=">>, <<"~","=">>, <<"=","=">>, <<"!","=">>, <<">","=">>,
     <<"<","=">>, <<">">>, <<"<">>, <<"=">> >>

\* RequirementsFileProcessor.cleanVersion
RequirementsCleanVersion(versionEntry) ==
  LET hits == {i \in 1..Len(VersionPrefixes) : StartsWith(versionEntry, VersionPrefixes[i])}
      stripped ==
        IF hits = {}
          THEN versionEntry
          ELSE LET first == CHOOSE i \in hits : \A j \in hits : i <= j
               IN  From(versionEntry, Len(VersionPrefixes[first]) + 1)
  IN  IF stripped = << >> THEN LATEST_VERSION ELSE stripped

\* RequirementsFileProcessor.cleanPackageName
RequirementsCleanPackageName(nameEntry) == ToLowerCase(nameEntry)

NoType == "undefined"
NoVulnerabilities == "undefined"

\* RequirementsFileProcessor.parsePackageEntry: ok is FALSE where it throws
ParsePackageEntry(rawEntry) ==
  LET m == MatchVersionPattern(rawEntry)
  IN  IF ~m.matched
        THEN [ok |-> FALSE]
        ELSE [ok |-> TRUE,
              pkg |-> [name |-> RequirementsCleanPackageName(m.g1),
                       version |-> RequirementsCleanVersion(m.g2),
                       type |-> NoType,
                       vulnerabilityContainer |-> NoVulnerabilities]]

\* the entries of a list that parse, in order; the others are skipped
\* (the loops of parseEntries and of PythonDependencyProvider.parseRequirements)
RECURSIVE ParseEntryList(_)
ParseEntryList(lines) ==
  IF lines = << >>
    THEN << >>
    ELSE LET r == ParsePackageEntry(Head(lines))
         IN  (IF r.ok THEN <<r.pkg>> ELSE << >>) \o ParseEntryList(Tail(lines))

\* fileContent.split(/\r?\n/)
RECURSIVE SplitLines(_)
SplitLines(fileContent) ==
  LET n == PrefixNotIn(fileContent, {"\n"})
      piece == SubSeq(fileContent, 1, n)
      line == IF n >= 1 /\ piece[n] = "\r" THEN SubSeq(piece, 1, n - 1) ELSE piece
  IN  IF n = Len(fileContent)
        THEN <<fileContent>>
        ELSE <<line>> \o SplitLines(From(fileContent, n + 2))

\* RequirementsFileProcessor.parseRawData
RequirementsParseRawData(fileContent) ==
  LET trimmed == [i \in 1..Len(SplitLines(fileContent)) |-> Trim(SplitLines(fileContent)[i])]
  IN  SelectSeq(trimmed, LAMBDA l : l # << >> /\ l[1] # "#")

\* RequirementsFileProcessor.parseEntries
RequirementsParseEntries(rawData) == ParseEntryList(rawData)

(***************************************************************************)
(* PipFileProcessor                                                        *)
(***************************************************************************)
PYPI == "pypi"
NPM == "npm"

\* PipFileProcessor.isGitPackageRef
IsGitPackageRef(packageName) ==
  \/ StartsWith(packageName, <<"g","i","t","+">>)
  \/ StartsWith(packageName, <<"h","t","t","p","s",":","/","/">>)

UnknownGitPackage ==
  <<"U","n","k","n","o","w","n"," ","G","i","t"," ","P","a","c","k","a","g","e">>

\* a cleanPackageName that forgets to lower-case the name
PipCleanPackageNameKeepCase(packageName) ==
  IF IsGitPackageRef(packageName)
    THEN UnknownGitPackage
    ELSE Trim(SplitFirst(SplitFirst(SplitFirst(packageName, ";"), "@"), "["))

\* PipFileProcessor.cleanPackageName
PipCleanPackageName(packageName) ==
  IF IsGitPackageRef(packageName)
    THEN UnknownGitPackage
    ELSE Trim(SplitFirst(SplitFirst(SplitFirst(ToLowerCase(packageName), ";"), "@"), "["))

\* number of characters an optional group (\.\d+)? consumes at the head of s
DotDigitsLen(s) ==
  IF Len(s) >= 2 /\ s[1] = "." /\ s[2] \in Digits
    THEN 1 + PrefixIn(From(s, 2), Digits)
    ELSE 0

\* PipFileProcessor.cleanVersion: the first match of
\* /(\d+(\.\d+)?(\.\d+)?[a-zA-Z0-9]*)/, or LATEST_VERSION
PipCleanVersion(versionString) ==
  LET skip == PrefixNotIn(versionString, Digits)
      s0 == From(versionString, skip + 1)
      n1 == PrefixIn(s0, Digits)
      s1 == From(s0, n1 + 1)
      n2 == DotDigitsLen(s1)
      s2 == From(s1, n2 + 1)
      n3 == DotDigitsLen(s2)
      s3 == From(s2, n3 + 1)
      n4 == PrefixIn(s3, {c \in Range(s3) : IsAlnum(c)})
  IN  IF s0 = << >> THEN LATEST_VERSION ELSE SubSeq(s0, 1, n1 + n2 + n3 + n4)

\* A raw Pipfile version is [kind |-> "string", v |-> s] for  name = "s",
\* [kind |-> "object", v |-> s] for  name = {version = "s"}  and
\* [kind |-> "other"] for anything else (a table without a version, a number).
\* PipFileProcessor.extractVersion: ok is FALSE where it throws
ExtractVersion(rawVersion) ==
  IF rawVersion.kind \in {"object", "string"}
    THEN [ok |-> TRUE, version |-> PipCleanVersion(rawVersion.v)]
    ELSE [ok |-> FALSE]

\* PipFileProcessor.parsePackageEntry
PipParsePackageEntry(rawName, rawVersion) ==
  LET v == ExtractVersion(rawVersion)
  IN  [name |-> PipCleanPackageName(rawName),
       version |-> IF v.ok THEN v.version ELSE LATEST_VERSION,
       type |-> PYPI,
       vulnerabilityContainer |-> NoVulnerabilities]

\* PipFileProcessor.parseEntries: data is the parsed TOML, a record of the
\* sections 'packages' and 'dev-packages', each the sequence of its entries
\* (empty when the section is absent)
PipParseEntries(data) ==
  LET section(es) == [i \in 1..Len(es) |-> PipParsePackageEntry(es[i].name, es[i].version)]
  IN  section(data.packages) \o section(data.devPackages)

(***************************************************************************)
(* package_extractor_factory: the choice of the processor by file name     *)
(***************************************************************************)
\* String.prototype.includes
Includes(s, sub) ==
  \E i \in 0..(Len(s) - Len(sub)) : SubSeq(s, i + 1, i + Len(sub)) = sub

\* fileName.replace(/\.[^/.]+$/, '')
WithoutExtension(fileName) ==
  LET dots == {i \in 1..Len(fileName) : fileName[i] = "."}
      last == CHOOSE i \in dots : \A j \in dots : j <= i
  IN  IF dots # {} /\ last < Len(fileName)
         /\ \A k \in (last + 1)..Len(fileName) : fileName[k] # "/"
        THEN SubSeq(fileName, 1, last - 1)
        ELSE fileName

KeyRequirements == <<"r","e","q","u","i","r","e","m","e","n","t","s">>
KeyPipfile == <<"p","i","p","f","i","l","e">>

\* PackageExtractorFactory.getExtractor: FALSE where it throws
\* UnsupportedFileTypeError
GetExtractor(fileName) ==
  LET base == WithoutExtension(ToLowerCase(fileName))
  IN  Includes(base, KeyRequirements) \/ Includes(base, KeyPipfile)

\* PythonPackageExtractor.getFileProcessor: the first key of fileProcessorMap
\* that the lower-cased file name includes
GetFileProcessor(fileName) ==
  IF Includes(ToLowerCase(fileName), KeyRequirements) THEN "requirements"
  ELSE IF Includes(ToLowerCase(fileName), KeyPipfile) THEN "pipfile"
  ELSE "unknown"

\* AbstractFileProcessor.parsePackages once readFile has delivered the
\* content: ok is FALSE where it throws FileProcessingError.  file.toml is
\* what the TOML library makes of the content.
ParsePackages(file) ==
  IF GetFileProcessor(file.name) = "requirements"
    THEN [ok |-> TRUE,
          packages |-> RequirementsParseEntries(RequirementsParseRawData(file.text))]
  ELSE IF GetFileProcessor(file.name) = "pipfile" /\ file.toml.ok
    THEN [ok |-> TRUE, packages |-> PipParseEntries(file.toml.data)]
  ELSE [ok |-> FALSE]

(***************************************************************************)
(* PythonDependencyProvider and DependencyProviderFactory                  *)
(***************************************************************************)
\* PythonDependencyProvider.getPackageVersionForAPI; << >> stands for null
GetPackageVersionForAPI(pkg) ==
  IF pkg.version = LATEST_VERSION THEN << >> ELSE pkg.version

\* PythonDependencyProvider.parseRequirements
ParseRequirements(requirements) == ParseEntryList(requirements)

\* PythonDependencyProvider.fetchRequiredPackages, given the registry's
\* response: "error" (fetch throws), "notOk" (response.ok is false),
\* "malformed" (the body is no JSON with an info object), or "ok" with
\* info.requires_dist present or not
FetchRequiredPackages(pkg, response) ==
  IF response.kind # "ok"
    THEN << >>
    ELSE LET version == GetPackageVersionForAPI(pkg)
             requirements ==
               IF version # << >> /\ response.hasRequiresDist
                 THEN response.requires_dist
                 ELSE << >>
         IN  ParseRequirements(requirements)

\* a buildDependencies whose edges start at the required package
BuildDependenciesFromRequired(sourcePackage, requiredPackages) ==
  [i \in 1..Len(requiredPackages) |->
     [from |-> requiredPackages[i], to |-> requiredPackages[i]]]

\* PythonDependencyProvider.buildDependencies
BuildDependencies(sourcePackage, requiredPackages) ==
  [i \in 1..Len(requiredPackages) |-> [from |-> sourcePackage, to |-> requiredPackages[i]]]

\* a loop of extractDependencies that keeps the last package's edges only
AddAllReplacing(dependencySet, pkgDependencies) == pkgDependencies

\* the inner loop of extractDependencies: every dependency of the package is
\* added to the set, which holds objects and so never merges two of them
AddAll(dependencySet, pkgDependencies) == dependencySet \o pkgDependencies

\* the keys of providerRegistry
ProviderRegistry == {PYPI}

\* a getProvider that falls back to the Python provider for a type the
\* registry does not hold
GetProviderWithFallback(pkg) ==
  IF pkg.type = NoType THEN [ok |-> FALSE, error |-> "PackageTypeUnknownError"]
  ELSE [ok |-> TRUE, provider |-> PYPI]

\* DependencyProviderFactory.getProvider: the provider, or the error thrown
GetProvider(pkg) ==
  IF pkg.type = NoType THEN [ok |-> FALSE, error |-> "PackageTypeUnknownError"]
  ELSE IF pkg.type \in ProviderRegistry THEN [ok |-> TRUE, provider |-> pkg.type]
  ELSE [ok |-> FALSE, error |-> "DependencyProviderNotFoundError"]

(***************************************************************************)
(* Inputs of a build                                                       *)
(***************************************************************************)
\* APP_CONFIG.MAX_NETWORK_LEVELS, the largest maxLevels the builds are given
MAX_NETWORK_LEVELS == 3

\* the sequences over S of length at most n
SeqsUpTo(S, n) == UNION {[1..k -> S] : k \in 0..n}

\* lines joined by "\n"
RECURSIVE JoinLines(_)
JoinLines(ls) ==
  IF ls = << >> THEN << >>
  ELSE IF Len(ls) = 1 THEN ls[1]
  ELSE ls[1] \o <<"\n">> \o JoinLines(Tail(ls))

YourPackage == <<"Y","o","u","r"," ","P","a","c","k","a","g","e">>

\* the lines a requirements file is made of
RequirementLines ==
  { <<"a","=","=","1">>,
    <<" ","A",">","=","1">>,
    <<"#"," ","c">>,
    YourPackage }

\* the entries a Pipfile section is made of
PipfileEntries ==
  { [name |-> <<"a">>, version |-> [kind |-> "string", v |-> <<"=","=","1">>]],
    [name |-> <<"B">>, version |-> [kind |-> "object", v |-> <<">","=","2">>]],
    [name |-> YourPackage, version |-> [kind |-> "other", v |-> << >>]] }

\* a TOML table holds a key once
DistinctNames(es) == \A i, j \in 1..Len(es) : es[i].name = es[j].name => i = j

NoToml == [ok |-> FALSE, data |-> [packages |-> << >>, devPackages |-> << >>]]

RequirementsFiles ==
  { [name |-> <<"r","e","q","u","i","r","e","m","e","n","t","s",".","t","x","t">>,
     text |-> JoinLines(ls), toml |-> NoToml] :
      ls \in SeqsUpTo(RequirementLines, MaxManifest) }

Pipfiles ==
  { [name |-> <<"P","i","p","f","i","l","e">>, text |-> << >>, toml |-> t] :
      t \in {NoToml} \cup
            { [ok |-> TRUE, data |-> [packages |-> ps, devPackages |-> ds]] :
                ps \in {x \in SeqsUpTo(PipfileEntries, MaxManifest) : DistinctNames(x)},
                ds \in {x \in SeqsUpTo(PipfileEntries, MaxManifest) : DistinctNames(x)} } }

OtherFiles ==
  { [name |-> <<"p","a","c","k","a","g","e",".","j","s","o","n">>,
     text |-> << >>, toml |-> NoToml] }

PackageFiles ==
  RequirementsFiles
    \cup {f \in Pipfiles :
            Len(f.toml.data.packages) + Len(f.toml.data.devPackages) <= MaxManifest}
    \cup OtherFiles

\* the requirement strings a registry response is made of
RequiresDistStrings ==
  { <<"a","=","=","1">>,
    <<"C","[","x","]",">","=","3">>,
    <<"(","b","a","d">> }

RegistryResponses ==
  { [kind |-> k, hasRequiresDist |-> FALSE, requires_dist |-> << >>] :
      k \in {"error", "notOk", "malformed", "ok"} }
    \cup { [kind |-> "ok", hasRequiresDist |-> TRUE, requires_dist |-> r] :
             r \in SeqsUpTo(RequiresDistStrings, MaxRequires) }

\* the package names the vulnerability data source may know of
KnownVulnerable == {<<"a">>, <<"c">>}

\* packages a caller of extractDependencies passes: of a registered type
\* (pinned, or of the latest version), of no type, of a type without provider
PypiPackage ==
  [name |-> <<"a">>, version |-> <<"1">>, type |-> PYPI,
   vulnerabilityContainer |-> NoVulnerabilities]
OtherPypiPackage ==
  [name |-> <<"b">>, version |-> <<"2">>, type |-> PYPI,
   vulnerabilityContainer |-> NoVulnerabilities]
LatestPypiPackage ==
  [name |-> <<"d">>, version |-> LATEST_VERSION, type |-> PYPI,
   vulnerabilityContainer |-> NoVulnerabilities]
UntypedPackage ==
  [name |-> <<"c">>, version |-> <<"3">>, type |-> NoType,
   vulnerabilityContainer |-> NoVulnerabilities]
NpmPackage ==
  [name |-> <<"n">>, version |-> <<"4">>, type |-> NPM,
   vulnerabilityContainer |-> NoVulnerabilities]

\* the batches extractDependencies is called with from outside a build
DirectBatches ==
  { << >>, <<PypiPackage>>, <<UntypedPackage>>, <<NpmPackage>>,
    <<PypiPackage, OtherPypiPackage>>, <<PypiPackage, UntypedPackage>>,
    <<PypiPackage, NpmPackage>>, <<UntypedPackage, PypiPackage>>,
    <<NpmPackage, PypiPackage>>, <<NpmPackage, UntypedPackage>>,
    <<UntypedPackage, NpmPackage>>,
    <<LatestPypiPackage>>, <<LatestPypiPackage, PypiPackage>>,
    <<PypiPackage, LatestPypiPackage>> }

(***************************************************************************)
(* PackageNetworkCreator                                                   *)
(***************************************************************************)
VARIABLES
  packageFile,            \* this.packageFile
  maxLevels,              \* this.maxLevels
  processedDependencies,  \* this.processedDependencies
  processedPackages,      \* the keys of this.processedPackages
  pc,                     \* where create() stands: the await it is suspended at
  directDependencies,     \* local of createRootLevel: what extractPackages gave
  levels,                 \* the local levels of create()
  currentLevelPackages,   \* local of processDependencyLevels
  levelIndex,             \* local of processDependencyLevels
  lookupIndex,            \* position of extractDependencies' loop in its batch
  dependencySet,          \* local of extractDependencies, in insertion order;
                          \* once returned, allDependencies of extractUniqueDependencies
  dependencies,           \* local of processDependencyLevels
  pending,                \* the packages handed to the annotator in flight
  promise,                \* the promise create() returned
  lookups,                \* number of registry requests issued
  annotations,            \* number of annotator calls issued
  calls,                  \* number of calls of create() on this instance
  call,                   \* a call of extractDependencies from outside a build
  world,                  \* how the registry and the annotator answer
  previous,               \* what create() gave for the upload before this one
  engine,                 \* the fields of the VisNetworkEngine of the page
  uploads,                \* where each call of handleFileUpload stands
  client                  \* the last call made on the engine from outside the page

vars == <<packageFile, maxLevels, processedDependencies, processedPackages, pc,
          directDependencies, levels, currentLevelPackages, levelIndex, lookupIndex, dependencySet,
          dependencies, pending, promise, lookups, annotations, calls, call,
          world, previous, engine, uploads, client>>

\* the state of the page
ui == <<engine, uploads, client>>

rootPackage ==
  [name |-> YourPackage, version |-> LATEST_VERSION, type |-> NoType,
   vulnerabilityContainer |-> NoVulnerabilities]

\* PackageNetworkCreator.createPackageKey
CreatePackageKey(pkg) == pkg.name \o <<"@">> \o pkg.version

\* PackageNetworkCreator.createDependencyKey
CreateDependencyKey(dependency) ==
  CreatePackageKey(dependency.from) \o <<"-", ">">> \o CreatePackageKey(dependency.to)

\* PackageNetworkCreator.filterUniquePackages: the packages kept, and the keys
\* of this.processedPackages afterwards
RECURSIVE FilterUniqueLoop(_, _, _)
FilterUniqueLoop(packages, processed, uniquePackages) ==
  IF packages = << >>
    THEN [unique |-> uniquePackages, processed |-> processed]
    ELSE LET pkg == Head(packages)
             packageKey == CreatePackageKey(pkg)
         IN  IF packageKey \notin processed
               THEN FilterUniqueLoop(Tail(packages), processed \cup {packageKey},
                                     Append(uniquePackages, pkg))
               ELSE FilterUniqueLoop(Tail(packages), processed, uniquePackages)

\* a filterUniquePackages that tests the keys but never records them
FilterUniquePackagesNoClaim(packages, processed) ==
  [unique |-> SelectSeq(packages, LAMBDA pkg : CreatePackageKey(pkg) \notin processed),
   processed |-> processed]

FilterUniquePackages(packages, processed) ==
  FilterUniqueLoop(packages, processed, << >>)

\* the filter of PackageNetworkCreator.extractUniqueDependencies: the
\* dependencies kept, and this.processedDependencies afterwards
RECURSIVE UniqueDependenciesLoop(_, _, _)
UniqueDependenciesLoop(allDependencies, processed, uniqueDependencies) ==
  IF allDependencies = << >>
    THEN [unique |-> uniqueDependencies, processed |-> processed]
    ELSE LET dependency == Head(allDependencies)
             dependencyKey == CreateDependencyKey(dependency)
         IN  IF dependencyKey \notin processed
               THEN UniqueDependenciesLoop(Tail(allDependencies),
                                           processed \cup {dependencyKey},
                                           Append(uniqueDependencies, dependency))
               ELSE UniqueDependenciesLoop(Tail(allDependencies), processed,
                                           uniqueDependencies)

\* an extractUniqueDependencies that records the keys but keeps every edge
UniqueDependenciesUnfiltered(allDependencies, processed) ==
  [unique |-> allDependencies,
   processed |-> UniqueDependenciesLoop(allDependencies, processed, << >>).processed]

UniqueDependencies(allDependencies, processed) ==
  UniqueDependenciesLoop(allDependencies, processed, << >>)

\* PackageNetworkCreator.collectNextLevelPackages
CollectNextLevelPackages(deps, processed) ==
  LET targets == [i \in 1..Len(deps) |-> deps[i].to]
  IN  SelectSeq(targets, LAMBDA pkg : CreatePackageKey(pkg) \notin processed)

\* an extractPackagesFromLevel that keeps the root
ExtractPackagesFromLevelKeepRoot(level) == level.packages

\* PackageNetworkCreator.extractPackagesFromLevel
ExtractPackagesFromLevel(level) ==
  SelectSeq(level.packages, LAMBDA pkg : pkg.name # YourPackage)

\* PackageNetworkCreator.createDependencies
CreateDependencies(root, packages) ==
  [i \in 1..Len(packages) |-> [from |-> root, to |-> packages[i]]]

\* the level createRootLevel returns
RootLevel(uniqueDirectDependencies, dependenciesWithVulnerabilities) ==
  IF uniqueDirectDependencies = << >>
    THEN [packages |-> <<rootPackage>>, dependencies |-> << >>]
    ELSE [packages |-> <<rootPackage>> \o dependenciesWithVulnerabilities,
          dependencies |-> CreateDependencies(rootPackage, uniqueDirectDependencies)]

\* a loop body that goes round without pushing the level
PushLevelSkipped(lv, level) == lv

\* levels.push of processDependencyLevels
PushLevel(lv, level) == Append(lv, level)

\* a loop condition that lets the index reach maxLevels
LoopConditionInclusive(index, max) == index <= max

\* the condition of the for loop of processDependencyLevels
LoopCondition(index, max) == index < max

\* a loop body without the break on an empty list of new packages
LevelOutcomeNoPackageBreak(uniqueDependencies, uniqueNextLevelPackages) ==
  IF uniqueDependencies = << >> THEN "break" ELSE "emit"

\* what a loop iteration of processDependencyLevels does with the unique
\* dependencies and the unique next-level packages it found: the two breaks,
\* or the annotator call and the push
LevelOutcome(uniqueDependencies, uniqueNextLevelPackages) ==
  IF uniqueDependencies = << >> THEN "break"
  ELSE IF uniqueNextLevelPackages = << >> THEN "break"
  ELSE "emit"

\* an extractDependencies that asks for the provider of every package of the
\* batch before the first request
BatchStartEveryPackage(packages) ==
  IF packages = << >> THEN "empty"
  ELSE IF \E i \in 1..Len(packages) : ~GetProvider(packages[i]).ok THEN "throw"
  ELSE "request"

\* extractDependencies up to its first await: an empty batch gives an empty
\* set, else the provider of the first package is looked up (which may throw)
\* and the first request goes out
BatchStart(packages) ==
  IF packages = << >> THEN "empty"
  ELSE IF ~GetProvider(packages[1]).ok THEN "throw"
  ELSE "request"

\* SonaTypeVulnerabilityProvider.addVulnerabilities when it succeeds: the
\* packages in their order, those the data source knows vulnerabilities of
\* (vulnerable, a set of names) being copies that carry a summary
AddVulnerabilities(packages, vulnerable) ==
  [i \in 1..Len(packages) |->
     IF packages[i].name \in vulnerable
       THEN [packages[i] EXCEPT !.vulnerabilityContainer = "High"]
       ELSE packages[i]]

\* the errors, outermost first
Error(name, message, about) == [name |-> name, message |-> message, about |-> about]

NetworkCreationError ==
  Error("PackageNetworkCreationError", "Failed to create package network", << >>)
RootLevelError ==
  Error("PackageNetworkCreationError", "Failed to create root level", << >>)
FileProcessingError(file) ==
  Error("FileProcessingError", "Failed to process file", file.name)
UnsupportedFileTypeError(file) ==
  Error("UnsupportedFileTypeError", "Unsupported file type", file.name)
VulnerabilityError ==
  Error("Error", "vulnerability data source failed", << >>)
ProviderError(pkg) ==
  IF pkg.type = NoType
    THEN Error("PackageTypeUnknownError", "Package type unknown for package", pkg.name)
    ELSE Error("DependencyProviderNotFoundError",
               "No dependency provider registered for package type", <<pkg.type>>)

Pending == [state |-> "pending", levels |-> << >>, reason |-> << >>]

\* no call of extractDependencies from outside a build
NoCall ==
  [state |-> "none", packages |-> << >>, index |-> 0, dependencySet |-> << >>,
   responses |-> << >>, error |-> << >>]

\* a PackageNetworkCreator as its constructor leaves it
Constructed(file, max) ==
  [packageFile |-> file, maxLevels |-> max,
   processedDependencies |-> {}, processedPackages |-> {}, pc |-> "constructed",
   directDependencies |-> [ok |-> FALSE, packages |-> << >>], levels |-> << >>,
   currentLevelPackages |-> << >>, levelIndex |-> 1,
   lookupIndex |-> 0, dependencySet |-> << >>,
   dependencies |-> << >>, pending |-> << >>, promise |-> Pending,
   calls |-> 0]

\* no PackageNetworkCreator
NoInstance == [Constructed(CHOOSE f \in OtherFiles : TRUE, MAX_NETWORK_LEVELS)
                 EXCEPT !.pc = "none"]

\* registries that answer a request the same way each time it is made
DeterministicRegistries == {"down", "bare", "chain", "cross"}

RegistryAnswer(registry, pkg) ==
  IF registry = "down"
    THEN [kind |-> "error", hasRequiresDist |-> FALSE, requires_dist |-> << >>]
  ELSE IF registry = "bare"
    THEN [kind |-> "ok", hasRequiresDist |-> FALSE, requires_dist |-> << >>]
  ELSE IF registry = "chain"
    THEN IF pkg.name = <<"a">>
           THEN [kind |-> "ok", hasRequiresDist |-> TRUE,
                 requires_dist |-> << <<"a","=","=","1">>,
                                     <<"C","[","x","]",">","=","3">> >>]
           ELSE [kind |-> "notOk", hasRequiresDist |-> FALSE, requires_dist |-> << >>]
  ELSE IF pkg.name = <<"a">>
    THEN [kind |-> "ok", hasRequiresDist |-> TRUE,
          requires_dist |-> << <<"C","[","x","]",">","=","3">> >>]
    ELSE [kind |-> "ok", hasRequiresDist |-> TRUE,
          requires_dist |-> << <<"C","[","x","]",">","=","3">>,
                              <<"a","=","=","1">> >>]

\* the registry, the annotator and the file reader answer as they please
AnyWorld == [registry |-> "any", vulnerable |-> {}]

\* the answers the registry may give to the request for a package
Answers(pkg) ==
  IF world = AnyWorld THEN RegistryResponses
  ELSE {RegistryAnswer(world.registry, pkg)}

\* what FileReader may come to: the text is read or not
ReadAnswers == IF world = AnyWorld THEN BOOLEAN ELSE {TRUE}

\* no upload before this one
NoUpload == [state |-> "none", levels |-> << >>, reason |-> << >>]

\* what a call of the annotator may come to: the set of names it reports
\* vulnerabilities of, or a rejection
AnnotatorOutcomes ==
  {[ok |-> TRUE, vulnerable |-> v] : v \in SUBSET KnownVulnerable}
    \cup {[ok |-> FALSE, vulnerable |-> {}]}

AnnotatorAnswers ==
  IF world = AnyWorld THEN AnnotatorOutcomes
  ELSE {[ok |-> TRUE, vulnerable |-> world.vulnerable]}

TypeOK ==
  /\ maxLevels \in 0..MAX_NETWORK_LEVELS
  /\ pc \in {"none", "constructed", "readFile", "annotateRoot", "lookup",
             "annotateLevel", "done"}
  /\ calls \in 0..(MaxCalls + 1)
  /\ call.state \in {"none", "called", "awaiting", "resolved", "rejected"}
  /\ promise.state \in {"pending", "fulfilled", "rejected"}
  /\ levelIndex \in 1..(MAX_NETWORK_LEVELS + 1)
  /\ lookupIndex \in 0..Len(currentLevelPackages)

(***************************************************************************)
(* The page before anything is uploaded                                    *)
(***************************************************************************)
\* a field that holds no DataSet yet, and a DataSet without items
NullDataSet == [made |-> FALSE, items |-> {}]
EmptyDataSet == [made |-> TRUE, items |-> {}]

\* the fields of a VisNetworkEngine after its constructor
NewEngine ==
  [isInitialized |-> FALSE, network |-> FALSE,
   networkNodes |-> NullDataSet, networkEdges |-> NullDataSet,
   pendingNodes |-> << >>, pendingEdges |-> << >>]

\* the two files a user selects one after the other
Uploads == {"A", "B"}

NoFile == [name |-> << >>, text |-> << >>, toml |-> NoToml]

\* no file has been selected
NoUploads ==
  [u \in Uploads |-> [pc |-> "idle", file |-> NoFile, during |-> "idle",
                      network |-> << >>, notification |-> "none"]]

\* no call on the engine from outside the page
NoClient == [op |-> "none", result |-> "none", load |-> "none"]

\* the page is not in use
NoPage ==
  /\ engine = NewEngine
  /\ uploads = NoUploads
  /\ client = NoClient

\* this instance is the given one
Load(instance) ==
  /\ packageFile = instance.packageFile
  /\ maxLevels = instance.maxLevels
  /\ processedDependencies = instance.processedDependencies
  /\ processedPackages = instance.processedPackages
  /\ pc = instance.pc
  /\ directDependencies = instance.directDependencies
  /\ levels = instance.levels
  /\ currentLevelPackages = instance.currentLevelPackages
  /\ levelIndex = instance.levelIndex
  /\ lookupIndex = instance.lookupIndex
  /\ dependencySet = instance.dependencySet
  /\ dependencies = instance.dependencies
  /\ pending = instance.pending
  /\ promise = instance.promise
  /\ calls = instance.calls

\* a PackageNetworkCreator is constructed for an uploaded file
InitBuild ==
  /\ \E file \in PackageFiles, max \in 0..MAX_NETWORK_LEVELS :
       Load(Constructed(file, max))
  /\ lookups = 0
  /\ annotations = 0
  /\ call = NoCall
  /\ world = AnyWorld
  /\ previous = NoUpload
  /\ NoPage

\* extractDependencies is called with a batch, outside any build
InitCall ==
  /\ Load(NoInstance)
  /\ lookups = 0
  /\ annotations = 0
  /\ world = AnyWorld
  /\ previous = NoUpload
  /\ NoPage
  /\ \E packages \in DirectBatches :
       call = [NoCall EXCEPT !.state = "called", !.packages = packages]

Init == InitBuild \/ InitCall

\* create() returns {levels}
Fulfil(lv, index) ==
  /\ pc' = "done"
  /\ promise' = [state |-> "fulfilled", levels |-> lv, reason |-> << >>]
  /\ levels' = lv
  /\ levelIndex' = index
  /\ currentLevelPackages' = << >>
  /\ lookupIndex' = 0
  /\ dependencySet' = << >>
  /\ dependencies' = << >>
  /\ pending' = << >>

\* a catch of create() that returns the levels built so far
RejectReturningLevels(lv, index, thrown) == Fulfil(lv, index)

\* a catch of create() that drops what was thrown
RejectWithoutCause(lv, index, thrown) ==
  /\ pc' = "done"
  /\ promise' = [state |-> "rejected", levels |-> << >>,
                 reason |-> <<NetworkCreationError>>]
  /\ levels' = lv
  /\ levelIndex' = index
  /\ currentLevelPackages' = << >>
  /\ lookupIndex' = 0
  /\ dependencySet' = << >>
  /\ dependencies' = << >>
  /\ pending' = << >>

\* the catch of create(): whatever was thrown is wrapped
Reject(lv, index, thrown) ==
  /\ pc' = "done"
  /\ promise' = [state |-> "rejected", levels |-> << >>,
                 reason |-> <<NetworkCreationError>> \o thrown]
  /\ levels' = lv
  /\ levelIndex' = index
  /\ currentLevelPackages' = << >>
  /\ lookupIndex' = 0
  /\ dependencySet' = << >>
  /\ dependencies' = << >>
  /\ pending' = << >>

\* processDependencyLevels at the head of its loop, up to the first await
\* that leaves the process: extractDependencies' first registry request
LoopHead(lv, current, index) ==
  IF ~LoopCondition(index, maxLevels)
    THEN Fulfil(lv, index) /\ UNCHANGED lookups
  ELSE IF BatchStart(current) = "empty"
    THEN Fulfil(lv, index) /\ UNCHANGED lookups
  ELSE IF BatchStart(current) = "throw"
    THEN Reject(lv, index, <<ProviderError(current[1])>>) /\ UNCHANGED lookups
  ELSE /\ pc' = "lookup"
       /\ levels' = lv
       /\ levelIndex' = index
       /\ currentLevelPackages' = current
       /\ lookupIndex' = 1
       /\ dependencySet' = << >>
       /\ dependencies' = << >>
       /\ pending' = << >>
       /\ lookups' = lookups + 1
       /\ UNCHANGED promise

\* create() is called: createRootLevel, extractPackages, up to readFile
Create ==
  /\ pc = "constructed"
  /\ IF GetExtractor(packageFile.name)
       THEN /\ pc' = "readFile"
            /\ UNCHANGED <<levels, currentLevelPackages, levelIndex, lookupIndex,
                           dependencySet, dependencies, pending, promise>>
       ELSE Reject(levels, levelIndex,
                   <<RootLevelError, UnsupportedFileTypeError(packageFile)>>)
  /\ calls' = calls + 1
  /\ UNCHANGED ui
  /\ UNCHANGED <<packageFile, maxLevels, processedDependencies, processedPackages,
                 directDependencies, lookups, annotations, call, world, previous>>

\* readFile settles: the manifest is parsed and deduplicated, and either the
\* annotator is called or, with no package left, level 0 is the root alone
ReadFileDone ==
  /\ pc = "readFile"
  /\ \E readOk \in ReadAnswers :
       LET parsed == ParsePackages(packageFile)
       IN  IF ~readOk \/ ~parsed.ok
             THEN /\ Reject(levels, levelIndex,
                            <<RootLevelError, FileProcessingError(packageFile)>>)
                  /\ UNCHANGED <<processedPackages, directDependencies, lookups,
                                 annotations>>
             ELSE LET f == FilterUniquePackages(parsed.packages, processedPackages)
                      rootLevel == RootLevel(f.unique, << >>)
                  IN  /\ processedPackages' = f.processed
                      /\ directDependencies' = parsed
                      /\ IF f.unique = << >>
                           THEN /\ LoopHead(<<rootLevel>>,
                                            ExtractPackagesFromLevel(rootLevel), 1)
                                /\ UNCHANGED annotations
                           ELSE /\ pc' = "annotateRoot"
                                /\ pending' = f.unique
                                /\ annotations' = annotations + 1
                                /\ UNCHANGED <<levels, currentLevelPackages, levelIndex,
                                               lookupIndex, dependencySet, dependencies,
                                               promise, lookups>>
  /\ UNCHANGED ui
  /\ UNCHANGED <<packageFile, maxLevels, processedDependencies, calls, call, world,
                 previous>>

\* the annotator call of createRootLevel settles: level 0 is pushed and
\* processDependencyLevels starts
AnnotateRootDone ==
  /\ pc = "annotateRoot"
  /\ \E outcome \in AnnotatorAnswers :
       IF outcome.ok
         THEN LET rootLevel ==
                    RootLevel(pending, AddVulnerabilities(pending, outcome.vulnerable))
              IN  LoopHead(<<rootLevel>>, ExtractPackagesFromLevel(rootLevel), 1)
         ELSE /\ Reject(levels, levelIndex, <<RootLevelError, VulnerabilityError>>)
              /\ UNCHANGED lookups
  /\ UNCHANGED ui
  /\ UNCHANGED <<packageFile, maxLevels, processedDependencies, processedPackages,
                 directDependencies, annotations, calls, call, world, previous>>

\* one registry request of extractDependencies settles; after the last one
\* of the batch the loop body of processDependencyLevels runs up to its
\* annotator call
LookupDone ==
  /\ pc = "lookup"
  /\ \E response \in Answers(currentLevelPackages[lookupIndex]) :
       LET pkg == currentLevelPackages[lookupIndex]
           found == BuildDependencies(pkg, FetchRequiredPackages(pkg, response))
           allDependencies == AddAll(dependencySet, found)
       IN  IF lookupIndex < Len(currentLevelPackages)
             THEN /\ dependencySet' = allDependencies
                  /\ lookupIndex' = lookupIndex + 1
                  /\ lookups' = lookups + 1
                  /\ UNCHANGED <<pc, levels, currentLevelPackages, levelIndex,
                                 dependencies, pending, promise,
                                 processedDependencies, processedPackages, annotations>>
             ELSE LET u == UniqueDependencies(allDependencies, processedDependencies)
                      nextLevelPackages ==
                        CollectNextLevelPackages(u.unique, processedPackages)
                      f == FilterUniquePackages(nextLevelPackages, processedPackages)
                  IN  /\ processedDependencies' = u.processed
                      /\ UNCHANGED lookups
                      /\ IF LevelOutcome(u.unique, f.unique) = "break"
                           THEN /\ Fulfil(levels, levelIndex)
                                /\ processedPackages' = f.processed
                                /\ UNCHANGED annotations
                           ELSE /\ pc' = "annotateLevel"
                                /\ processedPackages' = f.processed
                                /\ dependencies' = u.unique
                                /\ pending' = f.unique
                                /\ dependencySet' = allDependencies
                                /\ lookupIndex' = 0
                                /\ annotations' = annotations + 1
                                /\ UNCHANGED <<levels, currentLevelPackages, levelIndex,
                                               promise>>
  /\ UNCHANGED ui
  /\ UNCHANGED <<packageFile, maxLevels, directDependencies, calls, call, world, previous>>

\* the annotator call of processDependencyLevels settles: the level is
\* pushed and the loop goes round
AnnotateLevelDone ==
  /\ pc = "annotateLevel"
  /\ \E outcome \in AnnotatorAnswers :
       IF outcome.ok
         THEN LET level ==
                    [packages |-> AddVulnerabilities(pending, outcome.vulnerable),
                     dependencies |-> dependencies]
              IN  LoopHead(PushLevel(levels, level), pending, levelIndex + 1)
         ELSE /\ Reject(levels, levelIndex, <<VulnerabilityError>>)
              /\ UNCHANGED lookups
  /\ UNCHANGED ui
  /\ UNCHANGED <<packageFile, maxLevels, processedDependencies, processedPackages,
                 directDependencies, annotations, calls, call, world, previous>>

\* extractDependencies is entered by an outside caller and runs up to its
\* first await
ExtractDependenciesCalled ==
  /\ call.state = "called"
  /\ IF BatchStart(call.packages) = "empty"
       THEN /\ call' = [call EXCEPT !.state = "resolved"]
            /\ UNCHANGED lookups
     ELSE IF BatchStart(call.packages) = "throw"
       THEN /\ call' = [call EXCEPT !.state = "rejected",
                                    !.error = <<ProviderError(call.packages[1])>>]
            /\ UNCHANGED lookups
     ELSE /\ call' = [call EXCEPT !.state = "awaiting", !.index = 1]
          /\ lookups' = lookups + 1
  /\ UNCHANGED ui
  /\ UNCHANGED <<packageFile, maxLevels, processedDependencies, processedPackages,
                 pc, directDependencies, levels, currentLevelPackages, levelIndex,
                 lookupIndex, dependencySet, dependencies, pending, promise,
                 annotations, calls, world, previous>>

\* one registry request of the outside call settles
ExtractDependenciesLookupDone ==
  /\ call.state = "awaiting"
  /\ \E response \in RegistryResponses :
       LET pkg == call.packages[call.index]
           found == BuildDependencies(pkg, FetchRequiredPackages(pkg, response))
           added == [call EXCEPT !.dependencySet = AddAll(call.dependencySet, found),
                                 !.responses = Append(call.responses, response)]
       IN  IF call.index < Len(call.packages)
             THEN /\ call' = [added EXCEPT !.index = call.index + 1]
                  /\ lookups' = lookups + 1
             ELSE /\ call' = [added EXCEPT !.state = "resolved"]
                  /\ UNCHANGED lookups
  /\ UNCHANGED ui
  /\ UNCHANGED <<packageFile, maxLevels, processedDependencies, processedPackages,
                 pc, directDependencies, levels, currentLevelPackages, levelIndex,
                 lookupIndex, dependencySet, dependencies, pending, promise,
                 annotations, calls, world, previous>>

Next ==
  \/ Create
  \/ ReadFileDone
  \/ AnnotateRootDone
  \/ LookupDone
  \/ AnnotateLevelDone
  \/ ExtractDependenciesCalled
  \/ ExtractDependenciesLookupDone

Spec == Init /\ [][Next]_vars

(***************************************************************************)
(* create() called again on the instance                                   *)
(***************************************************************************)
\* create() is called on an instance whose earlier call has ended: the
\* locals are new, the fields are what the earlier call left
CreateAgain ==
  /\ pc = "done"
  /\ calls < MaxCalls
  /\ calls' = calls + 1
  /\ directDependencies' = [ok |-> FALSE, packages |-> << >>]
  /\ IF GetExtractor(packageFile.name)
       THEN /\ pc' = "readFile"
            /\ levels' = << >>
            /\ levelIndex' = 1
            /\ promise' = Pending
            /\ UNCHANGED <<currentLevelPackages, lookupIndex, dependencySet,
                           dependencies, pending>>
       ELSE Reject(<< >>, 1, <<RootLevelError, UnsupportedFileTypeError(packageFile)>>)
  /\ UNCHANGED ui
  /\ UNCHANGED <<packageFile, maxLevels, processedDependencies, processedPackages,
                 lookups, annotations, call, world, previous>>

NextReuse ==
  \/ Create
  \/ ReadFileDone
  \/ AnnotateRootDone
  \/ LookupDone
  \/ AnnotateLevelDone
  \/ CreateAgain

SpecReuse == InitBuild /\ [][NextReuse]_vars

(***************************************************************************)
(* The same file uploaded twice                                            *)
(***************************************************************************)
\* a constructor that leaves the two sets as the instance before left them
\* (sets that are static fields)
NewCreatorKeepingSets(file, max, before) ==
  [Constructed(file, max) EXCEPT !.processedPackages = before.processedPackages,
                                 !.processedDependencies = before.processedDependencies]

\* new PackageNetworkCreator(file, max), whatever instance was made before
NewCreator(file, max, before) == Constructed(file, max)

\* a builder is constructed for an upload, with a registry and an annotator
\* that answer a request the same way each time
InitTwice ==
  /\ \E file \in PackageFiles, max \in 0..MAX_NETWORK_LEVELS :
       Load(Constructed(file, max))
  /\ lookups = 0
  /\ annotations = 0
  /\ call = NoCall
  /\ \E registry \in DeterministicRegistries, vulnerable \in {{}, KnownVulnerable} :
       world = [registry |-> registry, vulnerable |-> vulnerable]
  /\ previous = NoUpload
  /\ NoPage

\* the file is uploaded again once its network is there: processPackageData
\* constructs a new PackageNetworkCreator for it
UploadAgain ==
  /\ pc = "done"
  /\ previous = NoUpload
  /\ previous' = promise
  /\ LET creator ==
           NewCreator(packageFile, maxLevels,
                      [processedPackages |-> processedPackages,
                       processedDependencies |-> processedDependencies])
     IN  /\ processedDependencies' = creator.processedDependencies
         /\ processedPackages' = creator.processedPackages
         /\ pc' = creator.pc
         /\ directDependencies' = creator.directDependencies
         /\ levels' = creator.levels
         /\ currentLevelPackages' = creator.currentLevelPackages
         /\ levelIndex' = creator.levelIndex
         /\ lookupIndex' = creator.lookupIndex
         /\ dependencySet' = creator.dependencySet
         /\ dependencies' = creator.dependencies
         /\ pending' = creator.pending
         /\ promise' = creator.promise
         /\ calls' = creator.calls
  /\ UNCHANGED ui
  /\ UNCHANGED <<packageFile, maxLevels, lookups, annotations, call, world>>

NextTwice ==
  \/ Create
  \/ ReadFileDone
  \/ AnnotateRootDone
  \/ LookupDone
  \/ AnnotateLevelDone
  \/ UploadAgain

SpecTwice == InitTwice /\ [][NextTwice]_vars

(***************************************************************************)
(* Properties of the network create() returns                              *)
(***************************************************************************)
\* the identity of a package: its name and its version
Identity(pkg) == <<pkg.name, pkg.version>>

Identities(packages) == [i \in 1..Len(packages) |-> Identity(packages[i])]

\* create() has returned a network; it is promise.levels
Returned == promise.state = "fulfilled"

\* the elements of a sequence that no earlier element equals, in order
FirstOccurrences(ids) ==
  LET keep == {i \in 1..Len(ids) : \A j \in 1..(i - 1) : ids[j] # ids[i]}
      F[n \in 0..Len(ids)] ==
        IF n = 0 THEN << >>
        ELSE IF n \in keep THEN Append(F[n - 1], ids[n]) ELSE F[n - 1]
  IN  F[Len(ids)]

\* the identities the manifest declares, in its order
Declared == Identities(directDependencies.packages)

\* the manifest has an entry whose raw name is the root's name
DeclaresRootName ==
  \/ \E i \in 1..Len(packageFile.toml.data.packages) :
       packageFile.toml.data.packages[i].name = YourPackage
  \/ \E i \in 1..Len(packageFile.toml.data.devPackages) :
       packageFile.toml.data.devPackages[i].name = YourPackage

\* C1: in a returned network every package identity (name and version) is in
\* the package list of at most one level and at most once in it; the root's
\* identity is no exception.
C1_IdentityClaimedOnce ==
  Returned =>
    \A n, m \in 1..Len(promise.levels) :
      \A i \in 1..Len(promise.levels[n].packages) :
        \A j \in 1..Len(promise.levels[m].packages) :
          Identity(promise.levels[n].packages[i]) = Identity(promise.levels[m].packages[j])
            => (n = m /\ i = j)

\* C1 witness: a network of two levels is returned for a manifest that
\* declares an entry under the root's name, and the resolver has reported a
\* package that level 0 had claimed.
C1_Witness ==
  /\ Returned
  /\ Len(promise.levels) = 2
  /\ DeclaresRootName
  /\ \E k \in 1..Len(promise.levels[2].dependencies) :
       \E i \in 1..Len(promise.levels[1].packages) :
         Identity(promise.levels[2].dependencies[k].to)
           = Identity(promise.levels[1].packages[i])

\* C2: in a returned network the target of every edge of a level N >= 1 is,
\* by identity, in the package list of level N itself.
C2_EdgeTargetsInOwnLevel ==
  Returned =>
    \A n \in 2..Len(promise.levels) :
      \A k \in 1..Len(promise.levels[n].dependencies) :
        \E i \in 1..Len(promise.levels[n].packages) :
          Identity(promise.levels[n].packages[i])
            = Identity(promise.levels[n].dependencies[k].to)

\* C3: in a returned network every edge of level 0 starts at the root, and
\* every edge of a level N >= 1 starts, by identity, at a package of level
\* N-1 that is not the root.
C3_EdgeSourcesInPreviousLevel ==
  Returned =>
    /\ \A k \in 1..Len(promise.levels[1].dependencies) :
         Identity(promise.levels[1].dependencies[k].from) = Identity(rootPackage)
    /\ \A n \in 2..Len(promise.levels) :
         \A k \in 1..Len(promise.levels[n].dependencies) :
           /\ Identity(promise.levels[n].dependencies[k].from) # Identity(rootPackage)
           /\ \E i \in 1..Len(promise.levels[n - 1].packages) :
                Identity(promise.levels[n - 1].packages[i])
                  = Identity(promise.levels[n].dependencies[k].from)

\* C3 witness: a returned network whose level 1 has edges from two different
\* packages of level 0.
C3_Witness ==
  /\ Returned
  /\ Len(promise.levels) = 2
  /\ \E k, l \in 1..Len(promise.levels[2].dependencies) :
       Identity(promise.levels[2].dependencies[k].from)
         # Identity(promise.levels[2].dependencies[l].from)

\* C4: no edge of a returned network joins a package identity to itself.
C4_NoSelfLoop ==
  Returned =>
    \A n \in 1..Len(promise.levels) :
      \A k \in 1..Len(promise.levels[n].dependencies) :
        Identity(promise.levels[n].dependencies[k].from)
          # Identity(promise.levels[n].dependencies[k].to)

\* C5: level 0 of a returned network has exactly one package of the root's
\* identity ('Your Package', '*'), and it is the first of the list.
C5_RootOnceAndFirst ==
  Returned =>
    /\ Len(promise.levels) >= 1
    /\ Len(promise.levels[1].packages) >= 1
    /\ Identity(promise.levels[1].packages[1]) = <<YourPackage, LATEST_VERSION>>
    /\ \A i \in 1..Len(promise.levels[1].packages) :
         Identity(promise.levels[1].packages[i]) = <<YourPackage, LATEST_VERSION>>
           => i = 1

\* C5 witness: a network is returned for a manifest that declares an entry
\* under the root's name with an unconstrained version, and level 0 holds the
\* package made of it next to the root.
C5_Witness ==
  /\ Returned
  /\ DeclaresRootName
  /\ \E i \in 2..Len(promise.levels[1].packages) :
       /\ promise.levels[1].packages[i].name = ToLowerCase(YourPackage)
       /\ promise.levels[1].packages[i].version = LATEST_VERSION

\* C6 as stated: a returned network has at least 1 and at most maxLevels
\* levels.
C6_AtMostMaxLevels ==
  Returned =>
    /\ Len(promise.levels) >= 1
    /\ Len(promise.levels) <= maxLevels

\* C6 amended: a returned network has at least 1 level and at most maxLevels
\* levels, or 1 level when maxLevels is 0.
C6_AtMostMaxLevelsOrSeed ==
  Returned =>
    /\ Len(promise.levels) >= 1
    /\ Len(promise.levels) <= (IF maxLevels >= 1 THEN maxLevels ELSE 1)

\* C6 witness: a returned network that has as many levels as maxLevels
\* allows, past the seed level.
C6_Witness ==
  /\ Returned
  /\ maxLevels = 2
  /\ Len(promise.levels) = 2

\* the set of the elements of a sequence
Elements(seq) == {seq[i] : i \in 1..Len(seq)}

\* C7: with maxLevels 1 or 0 a returned network is the seed level alone: the
\* root, then one package and one root edge for each distinct declared
\* identity, and the resolver has not been asked.
C7_OnlySeedLevel ==
  (Returned /\ maxLevels <= 1) =>
    /\ Len(promise.levels) = 1
    /\ lookups = 0
    /\ Identity(promise.levels[1].packages[1]) = Identity(rootPackage)
    /\ Elements(Identities(promise.levels[1].packages))
         = {Identity(rootPackage)} \cup Elements(Declared)
    /\ Len(promise.levels[1].packages) = 1 + Cardinality(Elements(Declared))
    /\ Len(promise.levels[1].dependencies) = Cardinality(Elements(Declared))
    /\ \A k \in 1..Len(promise.levels[1].dependencies) :
         /\ Identity(promise.levels[1].dependencies[k].from) = Identity(rootPackage)
         /\ Identity(promise.levels[1].dependencies[k].to) \in Elements(Declared)

\* C7 witness: a network is returned with maxLevels 1 whose level 0 holds a
\* pinned package the resolver could have been asked about.
C7_Witness ==
  /\ Returned
  /\ maxLevels = 1
  /\ \E i \in 1..Len(promise.levels[1].packages) :
       /\ promise.levels[1].packages[i].type = PYPI
       /\ promise.levels[1].packages[i].version # LATEST_VERSION

\* C8: when the manifest is read and yields no package, the build does not
\* reject, it returns the one level [root] without edges, and it issues no
\* registry request and no annotator call.
C8_EmptyManifest ==
  (directDependencies.ok /\ directDependencies.packages = << >>) =>
    /\ lookups = 0
    /\ annotations = 0
    /\ promise.state # "rejected"
    /\ pc = "done" =>
         /\ promise.state = "fulfilled"
         /\ promise.levels = <<[packages |-> <<rootPackage>>, dependencies |-> << >>]>>

\* C8 witness: a build of a manifest that has text but declares nothing (a
\* comment) has ended, with maxLevels allowing further levels.
C8_Witness ==
  /\ pc = "done"
  /\ directDependencies.ok
  /\ directDependencies.packages = << >>
  /\ packageFile.text # << >>
  /\ maxLevels >= 2

\* C9: level 0 of a returned network lists, after the root, the distinct
\* declared identities in the order of their first occurrence, each once, and
\* its edges are the root edges to them in the same order.
C9_DeclaredOnceInOrder ==
  Returned =>
    /\ Identities(promise.levels[1].packages)
         = <<Identity(rootPackage)>> \o FirstOccurrences(Declared)
    /\ [k \in 1..Len(promise.levels[1].dependencies) |->
          Identity(promise.levels[1].dependencies[k].to)] = FirstOccurrences(Declared)
    /\ \A k \in 1..Len(promise.levels[1].dependencies) :
          Identity(promise.levels[1].dependencies[k].from) = Identity(rootPackage)

\* C9 witness: a network is returned for a manifest that declares one
\* identity twice.
C9_Witness ==
  /\ Returned
  /\ \E i, j \in 1..Len(Declared) : i < j /\ Declared[i] = Declared[j]

\* a loop iteration ends having found no new edge or claimed no new package
FoundNothingNew ==
  /\ pc = "lookup"
  /\ pc' # "lookup"
  /\ \/ processedDependencies' = processedDependencies
     \/ processedPackages' = processedPackages

\* C10: every level N >= 1 ever pushed has at least one package and one edge,
\* and an iteration that finds no new edge or claims no new package ends the
\* build with the levels as they were.
C10_NoEmptyLevel ==
  /\ [](\A n \in 2..Len(levels) :
          /\ Len(levels[n].packages) >= 1
          /\ Len(levels[n].dependencies) >= 1)
  /\ [][FoundNothingNew =>
          (pc' = "done" /\ levels' = levels /\ promise'.state = "fulfilled"
             /\ promise'.levels = levels)]_vars

\* C10 witness: the build has ended with level 0 alone although the resolver
\* reported edges: all their targets had been claimed.
C10_Witness ==
  /\ Returned
  /\ maxLevels >= 2
  /\ Len(promise.levels) = 1
  /\ processedDependencies # {}

(***************************************************************************)
(* Failures of the resolver and of dispatch                                *)
(***************************************************************************)
\* the identities a requirement string of a registry response asks for
RequiredIdentities(requirement) ==
  IF requirement = <<"a","=","=","1">> THEN {<<<<"a">>, <<"1">>>>}
  ELSE IF requirement = <<"C","[","x","]",">","=","3">> THEN {<<<<"c">>, <<"3">>>>}
  ELSE {}

\* the lookup that got this response failed: the request threw, the package
\* was not found, or the body was malformed
LookupFailed(response) == response.kind # "ok"

\* the edges of a set that start at a package
EdgesFrom(set, pkg) == {k \in 1..Len(set) : set[k].from = pkg}

\* C11: when the lookup fails for one package of a batch and succeeds for
\* another, extractDependencies still resolves; the package whose lookup
\* failed contributes no edge and every requirement the registry reported
\* for the other, a package of a pinned version, is an edge of the result
\* (a lookup of the latest version is dealt with apart). In a build,
\* no answer to a lookup makes create() reject.
C11_LookupFailureIsolated ==
  /\ [](/\ call.state = "rejected" => call.index = 0
        /\ call.state = "resolved" =>
             \A i \in 1..Len(call.responses) :
               /\ LookupFailed(call.responses[i])
                    => EdgesFrom(call.dependencySet, call.packages[i]) = {}
               /\ (/\ ~LookupFailed(call.responses[i])
                   /\ call.responses[i].hasRequiresDist
                   /\ call.packages[i].version # LATEST_VERSION)
                    => \A r \in 1..Len(call.responses[i].requires_dist) :
                         \A id \in RequiredIdentities(call.responses[i].requires_dist[r]) :
                           \E k \in EdgesFrom(call.dependencySet, call.packages[i]) :
                             Identity(call.dependencySet[k].to) = id)
  /\ [][pc = "lookup" => promise'.state # "rejected"]_vars

\* C11 witness: a batch of two has resolved; the lookup of the second package
\* failed, the first one's succeeded and its edges are in the result.
C11_Witness ==
  /\ call.state = "resolved"
  /\ Len(call.packages) = 2
  /\ ~LookupFailed(call.responses[1])
  /\ LookupFailed(call.responses[2])
  /\ Cardinality(EdgesFrom(call.dependencySet, call.packages[1])) = 2

\* the error getProvider throws for a package without type
UnknownTypeOf(pkg) ==
  [name |-> "PackageTypeUnknownError",
   message |-> "Package type unknown for package", about |-> pkg.name]

\* the error getProvider throws for a type without provider
NotRegistered(pkg) ==
  [name |-> "DependencyProviderNotFoundError",
   message |-> "No dependency provider registered for package type",
   about |-> <<pkg.type>>]

\* extractDependencies has gone past its dispatch
Dispatched == call.state \in {"awaiting", "resolved", "rejected"}

\* C12 as stated: when any package of the batch has no type, resolution
\* fails with PackageTypeUnknownError naming a package without type.
C12_AnyUntypedRejects ==
  (Dispatched /\ \E i \in 1..Len(call.packages) : call.packages[i].type = NoType) =>
    /\ call.state = "rejected"
    /\ \E i \in 1..Len(call.packages) :
         /\ call.packages[i].type = NoType
         /\ call.error = <<UnknownTypeOf(call.packages[i])>>

\* C12 amended: dispatch is by the type of the first package of the batch
\* alone: when it has none, resolution fails with PackageTypeUnknownError
\* naming it; when it has a registered one, resolution does not fail, whatever
\* the types of the packages after it.
C12_FirstUntypedRejects ==
  (Dispatched /\ call.packages # << >>) =>
    /\ call.packages[1].type = NoType =>
         /\ call.state = "rejected"
         /\ call.error = <<UnknownTypeOf(call.packages[1])>>
    /\ call.packages[1].type \in ProviderRegistry => call.state # "rejected"

\* C12 witness: a batch whose second package has no type has resolved, with
\* a request made for that package too.
C12_Witness ==
  /\ call.state = "resolved"
  /\ Len(call.packages) = 2
  /\ call.packages[2].type = NoType
  /\ Len(call.responses) = 2

\* the packages of the last level built, without the root: the batch the
\* next iteration resolves
LastBatch ==
  SelectSeq(levels[Len(levels)].packages, LAMBDA pkg : pkg.name # YourPackage)

\* C13: a batch whose first package has a type without registered provider
\* makes extractDependencies fail with DependencyProviderNotFoundError naming
\* the type; and a build whose next batch cannot be dispatched rejects with
\* the dispatch error as the cause.
C13_UnregisteredTypeRejects ==
  /\ (Dispatched /\ call.packages # << >>
        /\ call.packages[1].type \notin (ProviderRegistry \cup {NoType})) =>
       /\ call.state = "rejected"
       /\ call.error = <<NotRegistered(call.packages[1])>>
  /\ (pc = "done" /\ levels # << >> /\ Len(levels) < maxLevels /\ LastBatch # << >>
        /\ LastBatch[1].type \notin ProviderRegistry) =>
       /\ promise.state = "rejected"
       /\ promise.levels = << >>
       /\ promise.reason[Len(promise.reason)]
            = (IF LastBatch[1].type = NoType THEN UnknownTypeOf(LastBatch[1])
               ELSE NotRegistered(LastBatch[1]))

\* C13 witness: a batch that starts with a package of type npm was rejected.
C13_Witness ==
  /\ call.state = "rejected"
  /\ call.packages[1].type = NPM
  /\ call.error[1].name = "DependencyProviderNotFoundError"

(***************************************************************************)
(* What create() gives its caller                                          *)
(***************************************************************************)
\* C14: create() ends in one of two ways: it resolves with all the levels it
\* built, or it rejects with one PackageNetworkCreationError 'Failed to create
\* package network' and hands no level to the caller, however many it had
\* built.
C14_NetworkOrOneError ==
  /\ pc \in {"readFile", "annotateRoot", "lookup", "annotateLevel"}
       => promise.state = "pending"
  /\ pc = "done" =>
       \/ /\ promise.state = "fulfilled"
          /\ promise.reason = << >>
          /\ promise.levels = levels
          /\ Len(levels) >= 1
       \/ /\ promise.state = "rejected"
          /\ promise.levels = << >>
          /\ promise.reason[1] = NetworkCreationError

\* C14 witness: create() has rejected after it had built two levels.
C14_Witness ==
  /\ pc = "done"
  /\ promise.state = "rejected"
  /\ Len(levels) = 2

\* the error at the end of the chain of causes of a rejection
OriginalCause == promise.reason[Len(promise.reason)]

\* C15 as stated: the error create() throws is the wrapper and its cause is
\* the original error, in the seed stage as in a later level.
C15_CauseIsOriginal ==
  promise.state = "rejected" =>
    /\ Len(promise.reason) = 2
    /\ promise.reason[1] = NetworkCreationError
    /\ promise.reason[2].name # "PackageNetworkCreationError"

\* C15 amended: the error create() throws is the wrapper 'Failed to create
\* package network'; for a failure in a level after the seed its cause is
\* the original error, for a failure in the seed stage its cause is a second
\* PackageNetworkCreationError, 'Failed to create root level', whose cause
\* is the original error.
C15_CauseChainEndsInOriginal ==
  promise.state = "rejected" =>
    /\ promise.reason[1] = NetworkCreationError
    /\ OriginalCause.name # "PackageNetworkCreationError"
    /\ IF levels = << >>
         THEN /\ Len(promise.reason) = 3
              /\ promise.reason[2] = RootLevelError
         ELSE Len(promise.reason) = 2

\* C15 witness: create() has rejected in the seed stage because the manifest
\* could not be processed.
C15_Witness ==
  /\ promise.state = "rejected"
  /\ levels = << >>
  /\ OriginalCause.name = "FileProcessingError"

\* C16: a failure of the annotator's data source never makes create()
\* reject.
C16_EnrichmentFailsOpen ==
  promise.state = "rejected" => OriginalCause # VulnerabilityError

(***************************************************************************)
(* The sets of an instance, and the order of the requests                  *)
(***************************************************************************)
\* C17: whenever create() starts, the set of claimed identities and the set
\* of seen edges are empty, also when it is called a second time on the
\* instance.
C17_SetsEmptyAtStart ==
  pc = "readFile" => (processedPackages = {} /\ processedDependencies = {})

\* the identities of the packages of a level, and the pairs of identities of
\* its edges
PackageIdentities(level) == Elements(Identities(level.packages))
EdgeIdentities(level) ==
  {<<Identity(level.dependencies[k].from), Identity(level.dependencies[k].to)>> :
     k \in 1..Len(level.dependencies)}

\* C18: when the same file is built twice, by two instances, with a registry
\* and an annotator that answer the same way each time, the two networks
\* have the same number of levels and, level by level, the same set of
\* package identities and the same set of edge identities.
C18_SameNetworkTwice ==
  (previous.state = "fulfilled" /\ pc = "done") =>
    /\ promise.state = "fulfilled"
    /\ Len(promise.levels) = Len(previous.levels)
    /\ \A n \in 1..Len(promise.levels) :
         /\ PackageIdentities(promise.levels[n]) = PackageIdentities(previous.levels[n])
         /\ EdgeIdentities(promise.levels[n]) = EdgeIdentities(previous.levels[n])

\* C18 witness: both builds have returned a network of two levels whose
\* level 1 has an edge to a package of level 0.
C18_Witness ==
  /\ previous.state = "fulfilled"
  /\ promise.state = "fulfilled"
  /\ Len(previous.levels) = 2
  /\ Len(promise.levels) = 2
  /\ \E k \in 1..Len(promise.levels[2].dependencies) :
       Identity(promise.levels[2].dependencies[k].to)
         \in PackageIdentities(promise.levels[1])

\* the annotator call of a level settles and create() goes on
AnnotatorSettles ==
  /\ pc \in {"annotateRoot", "annotateLevel"}
  /\ promise'.state # "rejected"

\* C19: while a registry request of a build is in flight no annotator call
\* is, every level before the one being resolved is in the list of levels,
\* and the batch being resolved is the last of them without the root; a
\* level is appended in the step in which its annotator call settles.
C19_LevelsSequential ==
  /\ [](pc = "lookup" =>
          /\ pending = << >>
          /\ Len(levels) = levelIndex
          /\ Identities(currentLevelPackages) = Identities(LastBatch))
  /\ [][AnnotatorSettles => levels' = Append(levels, levels'[Len(levels')])]_vars

\* C19 witness: the second registry request for level 1 is in flight, level
\* 0 being in the list with its annotations.
C19_Witness ==
  /\ pc = "lookup"
  /\ levelIndex = 1
  /\ lookupIndex = 2
  /\ annotations = 1
  /\ \E i \in 1..Len(levels[1].packages) :
       levels[1].packages[i].vulnerabilityContainer # NoVulnerabilities

\* C20: the registry requests of a batch are issued together: while one is
\* in flight, a request has gone out for every package of the batch.
C20_LookupsIssuedTogether ==
  /\ pc = "lookup" => lookupIndex = Len(currentLevelPackages)
  /\ call.state = "awaiting" => call.index = Len(call.packages)

(***************************************************************************)
(* The latest version                                                      *)
(***************************************************************************)
\* the lookup of a package of a batch read a response that lists requirements
ReportsRequirements(i) ==
  /\ ~LookupFailed(call.responses[i])
  /\ call.responses[i].hasRequiresDist

\* C21: a package whose version is the '*' sentinel gets one edge per
\* dependency the registry reports in its response, as a package of a
\* pinned version does.
C21_LatestEdgesPerDependency ==
  call.state = "resolved" =>
    \A i \in 1..Len(call.responses) :
      ReportsRequirements(i) =>
        Cardinality(EdgesFrom(call.dependencySet, call.packages[i]))
          = Len(ParseRequirements(call.responses[i].requires_dist))

(***************************************************************************)
(* Requirements manifests end to end                                       *)
(***************************************************************************)
\* a build over a requirements manifest that declares a package, with room
\* for a level after the seed, has ended and its seed level was built
RequirementsBuildEnded ==
  /\ pc = "done"
  /\ GetFileProcessor(packageFile.name) = "requirements"
  /\ maxLevels >= 2
  /\ levels # << >>
  /\ Len(levels[1].packages) > 1

\* C22: a build over a requirements manifest that declares at least one
\* package, with maxLevels >= 2, does not reject (the annotator's failures
\* apart): it returns a network whose level 0 holds the root and the declared
\* packages.
C22_RequirementsBuildResolves ==
  (RequirementsBuildEnded
     /\ ~(promise.state = "rejected" /\ OriginalCause = VulnerabilityError)) =>
    /\ Returned
    /\ Identities(promise.levels[1].packages)
         = <<Identity(rootPackage)>> \o FirstOccurrences(Declared)

(***************************************************************************)
(* Termination                                                             *)
(***************************************************************************)
\* every call create() awaits settles: the file reader, the annotator, the
\* registry request
AwaitsSettle ==
  /\ WF_vars(ReadFileDone)
  /\ WF_vars(AnnotateRootDone)
  /\ WF_vars(LookupDone)
  /\ WF_vars(AnnotateLevelDone)

SpecFair == Init /\ [][Next]_vars /\ AwaitsSettle

\* create() is suspended at an await
Suspended == pc \in {"readFile", "annotateRoot", "lookup", "annotateLevel"}

\* the number of the level iteration create() is in, 0 outside the loop
LevelIteration == IF pc \in {"lookup", "annotateLevel"} THEN levelIndex ELSE 0

\* C23: when every outstanding parser, resolver and annotator call settles,
\* create() resolves or rejects, and it never is in a level iteration beyond
\* the max(maxLevels - 1, 0)-th, whatever cycles the registry reports.
C23_BuildTerminates ==
  /\ (Suspended ~> pc = "done")
  /\ [](LevelIteration <= IF maxLevels >= 1 THEN maxLevels - 1 ELSE 0)

\* C23 witness: a build with room for three levels has ended after the
\* registry reported a package that requires itself.
C23_Witness ==
  /\ pc = "done"
  /\ maxLevels = MAX_NETWORK_LEVELS
  /\ Len(levels) = 2
  /\ \E k \in 1..Len(levels[2].dependencies) :
       Identity(levels[2].dependencies[k].from) = Identity(levels[2].dependencies[k].to)

(***************************************************************************)
(* Edges are emitted once                                                  *)
(***************************************************************************)
\* the identity of an edge: the identities of its two ends
EdgeIdentity(dependency) == <<Identity(dependency.from), Identity(dependency.to)>>

\* the edges of the levels built so far and of the level being annotated
RECURSIVE EdgesOf(_)
EdgesOf(lv) ==
  IF lv = << >> THEN << >> ELSE EdgesOf(SubSeq(lv, 1, Len(lv) - 1)) \o lv[Len(lv)].dependencies

EmittedEdges == EdgesOf(levels) \o (IF pc = "annotateLevel" THEN dependencies ELSE << >>)

\* C25: the edges of a network, returned or being built, have pairwise
\* distinct identities, and the set of seen edges only grows during a build.
C25_EdgesEmittedOnce ==
  /\ [](\A i, j \in 1..Len(EmittedEdges) :
          EdgeIdentity(EmittedEdges[i]) = EdgeIdentity(EmittedEdges[j]) => i = j)
  /\ [][processedDependencies \subseteq processedDependencies']_vars

\* C25 witness: the resolver has returned the same edge twice for a batch
\* and the level about to be emitted holds it once.
C25_Witness ==
  /\ pc = "annotateLevel"
  /\ \E i, j \in 1..Len(dependencySet) :
       i # j /\ EdgeIdentity(dependencySet[i]) = EdgeIdentity(dependencySet[j])
  /\ Len(dependencies) < Len(dependencySet)
  /\ processedDependencies # {}

(***************************************************************************)
(* The packages the resolver produces                                      *)
(***************************************************************************)
\* C26: every package of a level after the seed, which the builder hands to
\* the resolver in the next iteration, carries an ecosystem tag, and a build
\* with a level 1 and maxLevels >= 3 never rejects with
\* PackageTypeUnknownError.
C26_ProducedPackagesCarryType ==
  /\ \A n \in 2..Len(levels) :
       \A i \in 1..Len(levels[n].packages) : levels[n].packages[i].type # NoType
  /\ (pc = "done" /\ maxLevels >= 3 /\ Len(levels) >= 2) =>
       ~(promise.state = "rejected" /\ OriginalCause.name = "PackageTypeUnknownError")

(***************************************************************************)
(* The claimed identities                                                  *)
(***************************************************************************)
\* the keys of the packages of some levels, the root apart
EmittedKeys(lv) ==
  UNION {{CreatePackageKey(lv[n].packages[i]) :
            i \in {k \in 1..Len(lv[n].packages) :
                     Identity(lv[n].packages[k]) # Identity(rootPackage)}} :
         n \in 1..Len(lv)}

\* create() appends a level in this step
LevelAppended == Len(levels') = Len(levels) + 1

\* C30: whenever a level has just been appended, the claimed identities are
\* exactly the identities of the packages, the root apart, of the levels
\* emitted so far; and the claimed set only grows.
C30_ClaimedIsEmitted ==
  /\ [][LevelAppended => processedPackages' = EmittedKeys(levels')]_vars
  /\ [][processedPackages \subseteq processedPackages']_vars

\* C30 witness: two levels have been appended and three identities claimed.
C30_Witness ==
  /\ Len(levels) = 2
  /\ Cardinality(processedPackages) = 3
  /\ processedPackages = EmittedKeys(levels)

(***************************************************************************)
(* The summaries at the ends of the edges                                  *)
(***************************************************************************)
\* C28: in a returned network the package at the target of an edge carries
\* the same vulnerability summary as the package of the same identity in the
\* package list of the edge's level.
C28_EdgeTargetCarriesSummary ==
  Returned =>
    \A n \in 1..Len(promise.levels) :
      \A k \in 1..Len(promise.levels[n].dependencies) :
        \A i \in 1..Len(promise.levels[n].packages) :
          Identity(promise.levels[n].dependencies[k].to)
              = Identity(promise.levels[n].packages[i])
            => promise.levels[n].dependencies[k].to.vulnerabilityContainer
                 = promise.levels[n].packages[i].vulnerabilityContainer

(***************************************************************************)
(* DataTransformer: what the rendering stage accepts                       *)
(***************************************************************************)
\* DataTransformer.validatePackage: "ok" or the message of the
\* NetworkDataValidationError it throws
ValidatePackage(pkg) ==
  IF Trim(pkg.name) = << >> THEN "Package name must be a non-empty string"
  ELSE IF Trim(pkg.version) = << >> THEN "Package version must be a non-empty string"
  ELSE IF pkg.type # NoType /\ pkg.type \notin {NPM, PYPI}
    THEN "Package type must be either npm or pypi"
  ELSE "ok"

\* DataTransformer.validateDependency
ValidateDependency(dep) ==
  IF ValidatePackage(dep.from) # "ok" THEN ValidatePackage(dep.from)
  ELSE IF ValidatePackage(dep.to) # "ok" THEN ValidatePackage(dep.to)
  ELSE IF dep.from.name = dep.to.name /\ dep.from.version = dep.to.version
    THEN "Package cannot depend on itself"
  ELSE "ok"

\* VisNetworkEngine.updateNetwork for one level, up to the queues: "ok" or
\* the first message thrown, the nodes being made before the edges
TransformLevel(level) ==
  LET badPackages == {i \in 1..Len(level.packages) :
                        ValidatePackage(level.packages[i]) # "ok"}
      badDependencies == {k \in 1..Len(level.dependencies) :
                            ValidateDependency(level.dependencies[k]) # "ok"}
      Min(S) == CHOOSE x \in S : \A y \in S : x <= y
  IN  IF badPackages # {} THEN ValidatePackage(level.packages[Min(badPackages)])
      ELSE IF badDependencies # {}
        THEN ValidateDependency(level.dependencies[Min(badDependencies)])
      ELSE "ok"

\* C27: every level of a network create() returns passes the validation of
\* the rendering stage; in particular none has an edge that is refused with
\* 'Package cannot depend on itself'.
C27_ReturnedNetworkRenders ==
  Returned => \A n \in 1..Len(promise.levels) : TransformLevel(promise.levels[n]) = "ok"

(***************************************************************************)
(* DataTransformer and ColorManager: nodes and edges                       *)
(***************************************************************************)
\* DataTransformer.generateNodeId
GenerateNodeId(pkg) == pkg.name \o <<"@">> \o pkg.version

\* DataTransformer.generateNodeTitle
GenerateNodeTitle(pkg) == pkg.name \o <<"\n">> \o pkg.version

\* DataTransformer.generateEdgeId
GenerateEdgeId(dep) ==
  GenerateNodeId(dep.from) \o <<"-", ">">> \o GenerateNodeId(dep.to)

\* ColorManager.getColorForPackage: the colour of the overall severity of
\* the summary, the default colour without one
GetColorForPackage(pkg) ==
  IF pkg.vulnerabilityContainer # NoVulnerabilities
    THEN <<"SEVERITY", pkg.vulnerabilityContainer>>
    ELSE <<"DEFAULT">>

\* DataTransformer.createNodeFromPackage, for a package that is valid
CreateNodeFromPackage(pkg, level) ==
  [id |-> GenerateNodeId(pkg), title |-> GenerateNodeTitle(pkg), level |-> level,
   color |-> GetColorForPackage(pkg)]

\* DataTransformer.createEdgeFromDependency, for a dependency that is valid
CreateEdgeFromDependency(dep, level) ==
  [id |-> GenerateEdgeId(dep), from |-> GenerateNodeId(dep.from),
   to |-> GenerateNodeId(dep.to), level |-> level,
   color |-> GetColorForPackage(dep.to)]

\* DataTransformer.transformPackagesToNodes
TransformPackagesToNodes(packages, level) ==
  [i \in 1..Len(packages) |-> CreateNodeFromPackage(packages[i], level)]

\* DataTransformer.transformDependenciesToEdges
TransformDependenciesToEdges(deps, level) ==
  [k \in 1..Len(deps) |-> CreateEdgeFromDependency(deps[k], level)]

(***************************************************************************)
(* VisNetworkEngine                                                        *)
(***************************************************************************)
CENTER_NODE_ID == YourPackage \o <<"@">> \o LATEST_VERSION

\* DataSet.add of vis.js: the items are added one after the other, and an
\* item whose id the set holds already makes it throw
RECURSIVE DataSetAdd(_, _)
DataSetAdd(dataSet, data) ==
  IF data = << >> THEN [ok |-> TRUE, dataSet |-> dataSet]
  ELSE IF \E item \in dataSet.items : item.id = Head(data).id
    THEN [ok |-> FALSE, dataSet |-> dataSet]
  ELSE DataSetAdd([dataSet EXCEPT !.items = @ \cup {Head(data)}], Tail(data))

\* DataSet.clear
DataSetClear(dataSet) == [dataSet EXCEPT !.items = {}]

\* VisNetworkEngine.initialize; ready says that the vis.js library is loaded
\* and the container element is in the document
Initialize(e, ready) ==
  IF ~ready THEN [thrown |-> TRUE, engine |-> e]
  ELSE [thrown |-> FALSE,
        engine |-> [e EXCEPT !.networkNodes = EmptyDataSet,
                             !.networkEdges = EmptyDataSet,
                             !.network = TRUE,
                             !.isInitialized = TRUE]]

\* VisNetworkEngine.ensureInitialized: FALSE where it throws
EnsureInitialized(e) ==
  e.isInitialized /\ e.network /\ e.networkNodes.made /\ e.networkEdges.made

\* VisNetworkEngine.updateNetwork
UpdateNetwork(e, level, packages, deps) ==
  IF ~EnsureInitialized(e) THEN [thrown |-> TRUE, engine |-> e]
  ELSE IF TransformLevel([packages |-> packages, dependencies |-> deps]) # "ok"
    THEN [thrown |-> TRUE, engine |-> e]
  ELSE [thrown |-> FALSE,
        engine |-> [e EXCEPT
                      !.pendingNodes = @ \o TransformPackagesToNodes(packages, level),
                      !.pendingEdges = @ \o TransformDependenciesToEdges(deps, level)]]

\* a clearPendingData that leaves the queues as they are
ClearPendingDataSkipped(e) == e

\* VisNetworkEngine.clearPendingData
ClearPendingData(e) == [e EXCEPT !.pendingNodes = << >>, !.pendingEdges = << >>]

\* VisNetworkEngine.loadCollectedData up to the await of the layout: the
\* promise has resolved (nothing was queued), has rejected, or awaits
\* LayoutManager.createRadialLayout
LoadCollectedData(e) ==
  IF ~EnsureInitialized(e) THEN [state |-> "rejected", engine |-> e]
  ELSE IF e.pendingNodes = << >> /\ e.pendingEdges = << >>
    THEN [state |-> "resolved", engine |-> e]
  ELSE LET nodes == DataSetAdd(e.networkNodes, e.pendingNodes)
           withNodes == [e EXCEPT !.networkNodes = nodes.dataSet]
           edges == DataSetAdd(e.networkEdges, e.pendingEdges)
           withEdges == [withNodes EXCEPT !.networkEdges = edges.dataSet]
           loaded == ClearPendingData(withEdges)
       IN  IF ~nodes.ok THEN [state |-> "rejected", engine |-> withNodes]
           ELSE IF ~edges.ok THEN [state |-> "rejected", engine |-> withEdges]
           ELSE IF ~\E node \in loaded.networkNodes.items : node.id = CENTER_NODE_ID
             THEN [state |-> "rejected", engine |-> loaded]
           ELSE [state |-> "awaiting", engine |-> loaded]

\* VisNetworkEngine.clearNetwork
ClearNetwork(e) ==
  ClearPendingData(
    [e EXCEPT !.networkNodes = IF @.made THEN DataSetClear(@) ELSE @,
              !.networkEdges = IF @.made THEN DataSetClear(@) ELSE @])

(***************************************************************************)
(* What the page is given                                                  *)
(***************************************************************************)
\* a Pipfile with the given [packages] entries
PipfileOf(ps) ==
  [name |-> <<"P","i","p","f","i","l","e">>, text |-> << >>,
   toml |-> [ok |-> TRUE, data |-> [packages |-> ps, devPackages |-> << >>]]]

\* a requirements file without a line
EmptyRequirements ==
  [name |-> <<"r","e","q","u","i","r","e","m","e","n","t","s",".","t","x","t">>,
   text |-> << >>, toml |-> NoToml]

\* the files the user selects
UploadedFiles == {PipfileOf(<<e>>) : e \in PipfileEntries} \cup {EmptyRequirements}

\* the networks create() returns for a file when maxLevels is
\* MAX_NETWORK_LEVELS: level 0 alone, and none when the first package of
\* level 0 has no type
AppNetworks(file) ==
  IF ~GetExtractor(file.name) \/ ~ParsePackages(file).ok THEN {}
  ELSE LET unique == FilterUniquePackages(ParsePackages(file).packages, {}).unique
       IN  IF BatchStart(unique) = "throw" THEN {}
           ELSE {<<RootLevel(unique, AddVulnerabilities(unique, vulnerable))>> :
                   vulnerable \in SUBSET KnownVulnerable}

\* a level 1 as create() returns it with maxLevels 2 when the registry says
\* that a package requires itself
LevelWithSelfLoop ==
  [packages |-> <<UntypedPackage>>,
   dependencies |-> <<[from |-> PypiPackage, to |-> PypiPackage],
                      [from |-> PypiPackage, to |-> UntypedPackage]>>]

\* the levels updateNetwork is called with
RenderLevels ==
  {network[1] : network \in UNION {AppNetworks(file) : file \in UploadedFiles}}
    \cup {LevelWithSelfLoop}

\* the most nodes that are queued at a time
MaxQueued == 3

(***************************************************************************)
(* The engine called from outside the page                                 *)
(***************************************************************************)
InitEngine ==
  /\ Load(NoInstance)
  /\ lookups = 0
  /\ annotations = 0
  /\ call = NoCall
  /\ world = AnyWorld
  /\ previous = NoUpload
  /\ engine = NewEngine
  /\ uploads = NoUploads
  /\ client = NoClient

\* the variables of the builder and of the resolver
builder ==
  <<packageFile, maxLevels, processedDependencies, processedPackages, pc,
    directDependencies, levels, currentLevelPackages, levelIndex, lookupIndex,
    dependencySet, dependencies, pending, promise, lookups, annotations, calls,
    call, world, previous>>

ClientInitialize ==
  /\ \E ready \in BOOLEAN :
       /\ engine' = Initialize(engine, ready).engine
       /\ client' = [client EXCEPT !.op = "initialize",
                                   !.result = IF ready THEN "returned" ELSE "thrown"]
  /\ UNCHANGED <<uploads, builder>>

ClientUpdateNetwork ==
  /\ \E level \in RenderLevels, number \in 1..2 :
       /\ Len(engine.pendingNodes) + Len(level.packages) <= MaxQueued
       /\ LET updated == UpdateNetwork(engine, number, level.packages, level.dependencies)
          IN  /\ engine' = updated.engine
              /\ client' = [client EXCEPT !.op = "updateNetwork",
                                          !.result = IF updated.thrown THEN "thrown"
                                                     ELSE "returned"]
  /\ UNCHANGED <<uploads, builder>>

\* loadCollectedData is called while no earlier call of it is awaiting
ClientLoadCollectedData ==
  /\ client.load # "awaiting"
  /\ LET loaded == LoadCollectedData(engine)
     IN  /\ engine' = loaded.engine
         /\ client' = [op |-> "loadCollectedData", result |-> "returned",
                       load |-> loaded.state]
  /\ UNCHANGED <<uploads, builder>>

\* the layout a call of loadCollectedData awaits is made
ClientLayoutDone ==
  /\ client.load = "awaiting"
  /\ client' = [client EXCEPT !.load = "resolved"]
  /\ UNCHANGED <<engine, uploads, builder>>

ClientClearNetwork ==
  /\ engine' = ClearNetwork(engine)
  /\ client' = [client EXCEPT !.op = "clearNetwork", !.result = "returned"]
  /\ UNCHANGED <<uploads, builder>>

NextEngine ==
  \/ ClientInitialize
  \/ ClientUpdateNetwork
  \/ ClientLoadCollectedData
  \/ ClientLayoutDone
  \/ ClientClearNetwork

SpecEngine == InitEngine /\ [][NextEngine]_vars

\* the first sequence is the beginning of the second
IsPrefix(s, t) == Len(s) <= Len(t) /\ SubSeq(t, 1, Len(s)) = s

\* both queues of the engine are empty
QueuesEmpty(e) == e.pendingNodes = << >> /\ e.pendingEdges = << >>

\* C29: the engine follows initialize, queue, load. Called on an engine
\* that is not initialised, updateNetwork throws and loadCollectedData
\* rejects, and neither changes a field; updateNetwork appends to the queues
\* and leaves the displayed datasets alone, which only loadCollectedData
\* adds to; when loadCollectedData has added the queued data, and when
\* clearNetwork has run, both queues are empty, and only updateNetwork fills
\* them again.
C29_InitializeQueueLoad ==
  /\ [][(ClientUpdateNetwork /\ ~engine.isInitialized) =>
          (client'.result = "thrown" /\ engine' = engine)]_vars
  /\ [][(ClientLoadCollectedData /\ ~engine.isInitialized) =>
          (client'.load = "rejected" /\ engine' = engine)]_vars
  /\ [][ClientUpdateNetwork =>
          /\ engine'.networkNodes = engine.networkNodes
          /\ engine'.networkEdges = engine.networkEdges
          /\ IsPrefix(engine.pendingNodes, engine'.pendingNodes)
          /\ IsPrefix(engine.pendingEdges, engine'.pendingEdges)]_vars
  /\ [][(engine'.networkNodes.items \ engine.networkNodes.items) # {} =>
          (/\ ClientLoadCollectedData
           /\ engine'.networkNodes.items \ engine.networkNodes.items
                \subseteq Range(engine.pendingNodes))]_vars
  /\ [][(ClientLoadCollectedData /\ client'.load \in {"awaiting", "resolved"}) =>
          QueuesEmpty(engine')]_vars
  /\ [][ClientClearNetwork => QueuesEmpty(engine')]_vars
  /\ [][(QueuesEmpty(engine) /\ ~QueuesEmpty(engine')) => ClientUpdateNetwork]_vars

\* C29 witness: queued nodes have been loaded into the displayed dataset,
\* the queues are empty and the layout is awaited.
C29_Witness ==
  /\ client.load = "awaiting"
  /\ engine.networkNodes.items # {}
  /\ engine.networkEdges.items # {}
  /\ QueuesEmpty(engine)

(***************************************************************************)
(* VulizApp: two files selected one after the other                        *)
(***************************************************************************)
\* the page is loaded and the user is about to select two files
InitApp ==
  /\ Load(NoInstance)
  /\ lookups = 0
  /\ annotations = 0
  /\ call = NoCall
  /\ world = AnyWorld
  /\ previous = NoUpload
  /\ engine = NewEngine
  /\ client = NoClient
  /\ \E fileA \in UploadedFiles, fileB \in UploadedFiles :
       uploads = [NoUploads EXCEPT !["A"].file = fileA, !["B"].file = fileB]

\* the loop of processPackageData: updateNetwork for each level of the
\* network, numbered from 1, up to the first one that throws
RECURSIVE UpdateLevels(_, _, _)
UpdateLevels(e, network, levelNum) ==
  IF levelNum > Len(network) THEN [thrown |-> FALSE, engine |-> e]
  ELSE LET updated == UpdateNetwork(e, levelNum, network[levelNum].packages,
                                    network[levelNum].dependencies)
       IN  IF updated.thrown THEN updated
           ELSE UpdateLevels(updated.engine, network, levelNum + 1)

\* handleFileUpload is called for a selected file: the application is
\* reset, the engine initialised, a builder constructed and create() awaited
BeginUpload(u) ==
  /\ uploads[u].pc = "idle"
  /\ u = "B" => uploads["A"].pc # "idle"
  /\ \E ready \in BOOLEAN :
       LET initialized == Initialize(ClearNetwork(engine), ready)
       IN  /\ engine' = initialized.engine
           /\ uploads' =
                [uploads EXCEPT
                   ![u].pc = IF initialized.thrown THEN "finished" ELSE "building",
                   ![u].notification = IF initialized.thrown THEN "error" ELSE "info",
                   ![u].during = IF u = "B" THEN uploads["A"].pc ELSE "idle"]
  /\ UNCHANGED <<client, builder>>

\* create() settles for an upload: a rejection goes to the catch of
\* handleFileUpload; the levels of a network are queued and
\* loadCollectedData is called
BuildDone(u) ==
  /\ uploads[u].pc = "building"
  /\ \/ /\ uploads' = [uploads EXCEPT ![u].pc = "finished",
                                       ![u].notification = "error"]
        /\ UNCHANGED engine
     \/ \E network \in AppNetworks(uploads[u].file) :
          LET updated == UpdateLevels(engine, network, 1)
              loaded == LoadCollectedData(updated.engine)
          IN  IF updated.thrown
                THEN /\ engine' = updated.engine
                     /\ uploads' = [uploads EXCEPT ![u].pc = "finished",
                                                   ![u].network = network,
                                                   ![u].notification = "error"]
                ELSE /\ engine' = loaded.engine
                     /\ uploads' =
                          [uploads EXCEPT
                             ![u].network = network,
                             ![u].pc = IF loaded.state = "awaiting" THEN "layout"
                                       ELSE "finished",
                             ![u].notification =
                               IF loaded.state = "awaiting" THEN "info"
                               ELSE IF loaded.state = "resolved" THEN "success"
                               ELSE "error"]
  /\ UNCHANGED <<client, builder>>

\* the layout loadCollectedData awaits is made: the upload has succeeded
LayoutDone(u) ==
  /\ uploads[u].pc = "layout"
  /\ uploads' = [uploads EXCEPT ![u].pc = "finished", ![u].notification = "success"]
  /\ UNCHANGED <<engine, client, builder>>

NextApp ==
  \/ \E u \in Uploads : BeginUpload(u)
  \/ \E u \in Uploads : BuildDone(u)
  \/ \E u \in Uploads : LayoutDone(u)

SpecApp == InitApp /\ [][NextApp]_vars

\* every network a build with MAX_NETWORK_LEVELS returns is one of
\* AppNetworks
AppNetworksAreReturned ==
  (Returned /\ maxLevels = MAX_NETWORK_LEVELS) => promise.levels \in AppNetworks(packageFile)

\* the nodes and the edges processPackageData makes of a network
NodesOf(network) ==
  UNION {Range(TransformPackagesToNodes(network[n].packages, n)) : n \in 1..Len(network)}
EdgesOfNetwork(network) ==
  UNION {Range(TransformDependenciesToEdges(network[n].dependencies, n)) :
           n \in 1..Len(network)}

\* both uploads have finished, the second having begun while the first was
\* awaiting its build
OverlappingUploadsFinished ==
  /\ uploads["A"].pc = "finished"
  /\ uploads["B"].pc = "finished"
  /\ uploads["B"].during = "building"

\* C24: when a file is selected while the build for the file before it is
\* still awaited, then once both uploads have finished the displayed nodes
\* and edges are those of the second file's network and the queues are
\* empty: nothing of the first file's network is left.
C24_OnlyLatestUpload ==
  OverlappingUploadsFinished =>
    /\ engine.networkNodes.items = NodesOf(uploads["B"].network)
    /\ engine.networkEdges.items = EdgesOfNetwork(uploads["B"].network)
    /\ QueuesEmpty(engine)

====
